---- MODULE Spec2Model ----
(***************************************************************************)
(* Model of the gamertime party-game server: one room (lobby) with its     *)
(* roster's ready flags and status, the sessions started for it            *)
(* (ClickerGame / TriviaGame through routers/ws_routes.py, BuzzerGame      *)
(* driven directly through its methods), and the asyncio tasks those       *)
(* sessions create.                                                        *)
(*                                                                         *)
(* Scheduling.  The server is one asyncio event loop: a coroutine runs     *)
(* until it awaits something that is not ready.  In this code the only     *)
(* such awaits inside the game logic are asyncio.sleep(n):                 *)
(*   - storage.get_lobby is a plain dictionary lookup (storage.py:47-48);  *)
(*   - storage.save_lobby takes a lock nobody holds across a suspension    *)
(*     (storage.py:50-56);                                                 *)
(*   - storage.publish only sends to storage.connections[room_code]        *)
(*     (storage.py:85-107), a set filled only by storage.add_connection    *)
(*     (storage.py:123-127), which nothing in the repository calls.        *)
(* So every action below is one run of a coroutine from where it was       *)
(* resumed to its next asyncio.sleep or its end.  Sleeps of different      *)
(* tasks end in any order (time is abstracted).                            *)
(*                                                                         *)
(* "Broadcast" means a call of storage.publish (the sessions) or of        *)
(* broadcast_to_room (the websocket handlers); the events of the last step *)
(* are kept in last.events.  The room's handlers are modelled with the     *)
(* same granularity; what happens when their sends are suspended is the    *)
(* subject of the send loops' own actions (PublishBegin, SendResume).      *)
(*                                                                         *)
(* Time stamps (time.time(), datetime.now()) are left out of the state.    *)
(* schemas/game_schemas.py declares no BuzzerGameState and no buzz_times / *)
(* question_start_time field on TriviaGameState; the model gives the       *)
(* state objects the attributes the game logic reads and writes.           *)
(***************************************************************************)
EXTENDS Integers, Sequences, FiniteSets, TLC

VARIABLES
    game_type,  \* lobby["game_type"], fixed when the room is created
    status,     \* lobby["status"]
    is_ready,   \* lobby["players"][p]["is_ready"]
    games,      \* the ClickerGame / TriviaGame objects created so far, oldest first
    registry,   \* active_games / active_trivia_games[room_code]: index into games, 0 = no entry
    buzzer,     \* the room's BuzzerGame object and its countdown tasks
    last,       \* the last step: its operation, session, return value and published events
    lobbies,    \* room_code in storage.lobbies
    players,    \* the player_ids of lobby["players"], in list order
    connected,  \* the players whose lobby entry has connected = True
    sockets,    \* per player: the websocket_endpoint coroutine of the player's client
    connections,          \* ws_routes.connections[room_code]: the sockets, by player
    storage_connections,  \* storage.connections: whether it has the room, and the room's set
    sending,    \* the publish / broadcast_to_room calls that are in their send loop
    locks,      \* room_code in storage.locks
    cleanup_tasks         \* the cleanup tasks of the room that are asleep and not cancelled

\* what the room's handlers and the storage keep besides the lobby's status and ready flags
roomvars == <<lobbies, players, connected, sockets, connections, storage_connections, sending>>

\* what save_lobby touches besides the lobby itself
storevars == <<locks, cleanup_tasks>>

vars == <<game_type, status, is_ready, games, registry, buzzer, last, roomvars, storevars>>

----------------------------------------------------------------------------
(* Bounds of the model *)

\* sessions a host may start for the room in one behaviour
MaxSessions == 2
\* clicks a player can make in one clicker session
MaxClicks == 1
\* the duration argument of ClickerGame (its default is 10)
Duration == 2
\* coroutines (timer tasks, sleeping answer handlers) one trivia session may have alive
MaxTasks == 2
\* rounds of one buzzer session
MaxRounds == 2
\* award_points calls in one buzzer session
MaxAwards == 1
\* publish / broadcast_to_room calls in progress at the same time
MaxSenders == 2

----------------------------------------------------------------------------
(* Program constants and inputs *)

Players == {"p1", "p2"}
Host == "p1"
GameTypes == {"clicker", "trivia", "buzzer"}

\* correct_answer of each sample question, in order
CorrectAnswers == <<2, 1, 2, 3, 1>>
\* answer_index values a client sends
AnswerIdx == {1, 2}
\* points a host awards
PointValues == {-1, 1}
\* len(SAMPLE_QUESTIONS)
NumQuestions == 5
\* TriviaQuestion.time_limit
TimeLimit == 30
\* length of the buzzer countdown
Countdown == 3

\* a count of published terminal events: 0, 1, or 2 for "more than one"
Inc(n) == IF n < 2 THEN n + 1 ELSE n

\* a step of the system: the operation run, the session it ran on (0: none or the buzzer
\* session), the player it was called for ("-": none), what it returned and what it published
Step(op, sid, player, ret, events) ==
    [op |-> op, sid |-> sid, player |-> player, ret |-> ret, events |-> events, data |-> <<>>]

\* a step whose last published event carries the payload data
StepData(op, sid, player, ret, events, data) ==
    [Step(op, sid, player, ret, events) EXCEPT !.data = data]

\* lobby["players"] in order: the host, then the players in the order they joined; the
\* score table of a session is filled in this order
PlayerOrder == <<"p1", "p2">>

\* a player_id that is in no score table: a client that left the lobby before the game
\* started and still has its socket open
Stranger == "p0"

\* scores.items(): the entries of a score table in insertion order
ScoreItems(scores) ==
    LET keys == SelectSeq(PlayerOrder, LAMBDA p : p \in DOMAIN scores)
    IN [i \in 1..Len(keys) |-> [player_id |-> keys[i], score |-> scores[keys[i]]]]

\* a buzz record whose position counts from 0
BuzzInfoFromZero(bt, p) == [player_id |-> p, position |-> Len(bt)]

\* buzz_info of handle_buzz (both games): the player and the 1-based place in the list bt
BuzzInfo(bt, p) == [player_id |-> p, position |-> Len(bt) + 1]

\* a sort that turns the ascending order round, which puts equal scores in reverse order
InsertBeforeTies(x, seq) ==
    LET k == Cardinality({i \in 1..Len(seq) : seq[i].score > x.score})
    IN SubSeq(seq, 1, k) \o <<x>> \o SubSeq(seq, k + 1, Len(seq))

\* x put into the descending sequence seq behind every item whose score is not lower
InsertByScore(x, seq) ==
    LET k == Cardinality({i \in 1..Len(seq) : seq[i].score >= x.score})
    IN SubSeq(seq, 1, k) \o <<x>> \o SubSeq(seq, k + 1, Len(seq))

\* sorted(items, key=score, reverse=True): descending and stable
RECURSIVE SortedByScore(_)
SortedByScore(items) ==
    IF items = <<>> THEN <<>>
    ELSE InsertByScore(items[Len(items)], SortedByScore(SubSeq(items, 1, Len(items) - 1)))

\* the score cards of game_finished: the sorted entries numbered from 1
Ranking(scores) ==
    LET s == SortedByScore(ScoreItems(scores))
    IN [i \in 1..Len(s) |-> [player_id |-> s[i].player_id, score |-> s[i].score, rank |-> i]]

\* scores.items() of a table filled in the order of the list order
ScoreItemsIn(order, scores) ==
    LET keys == SelectSeq(order, LAMBDA p : p \in DOMAIN scores)
    IN [i \in 1..Len(keys) |-> [player_id |-> keys[i], score |-> scores[keys[i]]]]

\* the score cards of game_finished for a table filled in the order of the list order
RankingIn(order, scores) ==
    LET s == SortedByScore(ScoreItemsIn(order, scores))
    IN [i \in 1..Len(s) |-> [player_id |-> s[i].player_id, score |-> s[i].score, rank |-> i]]

\* the player_ids in lobby["players"]
Roster == {players[i] : i \in 1..Len(players)}

\* start_game's test with only the host's flag looked at
HostReady == is_ready[Host]

\* start_game's test: all(p["is_ready"] for p in lobby["players"])
AllReady == \A p \in Roster : is_ready[p]

\* a cleanup scheduled next to the tasks already asleep
ScheduledWithoutCancel(n) == Inc(n)

\* _schedule_cleanup: the pending task, if any, is cancelled and one new task is created
Scheduled(n) == 1

\* storage.save_lobby of the lobby with status st
SaveLobby(st) ==
    /\ status' = st
    /\ locks' = TRUE
    /\ cleanup_tasks' = IF st = "finished" THEN Scheduled(cleanup_tasks) ELSE cleanup_tasks

\* a websocket_endpoint coroutine in its receive loop; it keeps updated_player, the copy
\* of the player's lobby entry made when the client connected, with that is_ready
Opened(ready) == [state |-> "open", is_ready |-> ready]

\* no coroutine for the player's client
NoSocket == [state |-> "none", is_ready |-> FALSE]

\* storage.connections without the room; storage.add_connection is called nowhere
NoConnections == [has_room |-> FALSE, conns |-> {}]

\* the calls of publish / broadcast_to_room that may be in progress at the same time
Senders == 1..MaxSenders

\* a publish / broadcast_to_room call that is not running
Idle == [pc |-> "idle", via |-> "-", size |-> 0, todo |-> {}, at |-> "-", failed |-> {},
         sent |-> {}]

----------------------------------------------------------------------------
(* Session objects nobody can reach any more *)

\* live coroutines of a trivia session
LiveTasks(g) ==
    (IF g.timer_task = "done" THEN 0 ELSE 1)
    + g.stale["created"] + g.stale["tick"] + g.stale["timeup"] + g.answering

\* a session with no live task: once it has no registry entry either, nothing refers to it
NoTask(g) ==
    CASE g.kind = "clicker" -> g.timer = "done"
      [] g.kind = "trivia" -> LiveTasks(g) = 0
      [] OTHER -> TRUE

\* what is kept of such a session: the count of its terminal events
Collected(g) == [kind |-> "collected", n_finished |-> g.n_finished, n_stopped |-> g.n_stopped]

\* the session objects gs with registry entry r, the unreachable ones collected
Collect(gs, r) ==
    [i \in 1..Len(gs) |-> IF i # r /\ NoTask(gs[i]) THEN Collected(gs[i]) ELSE gs[i]]

----------------------------------------------------------------------------
(* Clicker *)

\* ClickerGame.__init__ followed by start_game up to create_task
ClickerStarted ==
    [ kind |-> "clicker",
      is_active |-> TRUE,
      time_remaining |-> Duration,
      scores |-> [p \in Roster |-> 0],
      order |-> players,               \* the list start_game filled the score table from
      timer |-> "created",
      ticks |-> <<>>,                  \* the time_remaining values of the ticks published so far
      n_finished |-> 0,
      n_stopped |-> 0 ]

\* handle_click without its is_active test
ClickValidWhenever(g, p) == p \in DOMAIN g.scores

\* handle_click's validity test
ClickValid(g, p) == g.is_active /\ p \in DOMAIN g.scores

\* a click that raises every player's count
ClickCountedForAll(g, p) == [g EXCEPT !.scores = [q \in DOMAIN @ |-> @[q] + 1]]

\* handle_click's increment of the player's count
ClickCounted(g, p) == [g EXCEPT !.scores[p] = @ + 1]

\* a countdown loop that runs down to 0 instead of 1
TimerExhaustedAtZero(g) == g.time_remaining <= 0

\* range(duration, 0, -1) has no value left after the one published last
TimerExhausted(g) == g.time_remaining <= 1

\* a timer that ends the session without publishing game_finished
ClickerEndedSilently(g) ==
    [g EXCEPT !.is_active = FALSE, !.time_remaining = 0, !.timer = "done"]

\* _end_game's effect on the session
ClickerEnded(g) ==
    [g EXCEPT !.is_active = FALSE, !.time_remaining = 0,
              !.n_finished = Inc(@), !.timer = "done"]

\* _end_game when the lobby is gone: lobby["players"] raises on the first score card,
\* before anything is published
ClickerCrashed(g) ==
    [g EXCEPT !.is_active = FALSE, !.time_remaining = 0, !.timer = "done"]

\* ClickerGame.stop_game: cancel the timer task, clear is_active, publish game_stopped
ClickerStopped(g) ==
    [g EXCEPT !.is_active = FALSE,
              !.n_stopped = Inc(@),
              !.timer = CASE @ = "sleeping" -> "cancelling"
                          [] @ = "created" -> "done"
                          [] OTHER -> @]

\* player_action "click" routed to the registered clicker game
Click(p) ==
    /\ game_type = "clicker"
    /\ registry # 0
    /\ LET g == games[registry] IN
         IF ClickValid(g, p)
         THEN /\ g.scores[p] < MaxClicks
              /\ games' = [games EXCEPT ![registry] = ClickCounted(g, p)]
              /\ last' = StepData("click", registry, p, "true", <<"click_registered">>,
                                   <<ClickCounted(g, p).scores[p]>>)
         ELSE /\ games' = games
              /\ last' = Step("click", registry, p, "false", <<>>)
    /\ UNCHANGED <<game_type, status, is_ready, registry, buzzer, roomvars, storevars>>

\* one run of ClickerGame._run_timer of session s, from a wake-up to the next sleep or the end
ClickerTimer(s) ==
    /\ s \in 1..Len(games)
    /\ games[s].kind = "clicker"
    /\ LET g == games[s] IN
         CASE g.timer = "created" ->
                /\ games' = [games EXCEPT ![s].time_remaining = Duration,
                                          ![s].ticks = Append(@, Duration),
                                          ![s].timer = "sleeping"]
                /\ last' = StepData("timer", s, "-", "none", <<"tick">>, <<Duration>>)
                /\ UNCHANGED <<status, storevars>>
           [] g.timer = "sleeping" /\ ~TimerExhausted(g) ->
                /\ games' = [games EXCEPT ![s].time_remaining = @ - 1,
                                          ![s].ticks = Append(@, g.time_remaining - 1)]
                /\ last' = StepData("timer", s, "-", "none", <<"tick">>,
                                    <<g.time_remaining - 1>>)
                /\ UNCHANGED <<status, storevars>>
           [] g.timer = "sleeping" /\ TimerExhausted(g) /\ lobbies ->
                /\ games' = Collect([games EXCEPT ![s] = ClickerEnded(g)], registry)
                /\ last' = StepData("timer", s, "-", "none", <<"game_finished">>,
                                    RankingIn(g.order, g.scores))
                /\ SaveLobby("finished")
           [] g.timer = "sleeping" /\ TimerExhausted(g) /\ ~lobbies ->
                /\ games' = Collect([games EXCEPT ![s] = ClickerCrashed(g)], registry)
                /\ last' = Step("timer", s, "-", "error", <<>>)
                /\ UNCHANGED <<status, storevars>>
           [] g.timer = "cancelling" ->
                /\ games' = Collect([games EXCEPT ![s].is_active = FALSE, ![s].timer = "done"],
                                    registry)
                /\ last' = Step("timer", s, "-", "none", <<>>)
                /\ UNCHANGED <<status, storevars>>
           [] OTHER -> FALSE
    /\ UNCHANGED <<game_type, is_ready, registry, buzzer, roomvars>>

----------------------------------------------------------------------------
(* Trivia *)

TimerPcs == {"created", "tick", "timeup"}

NoStale == [pc \in TimerPcs |-> 0]

\* TriviaGame.__init__ followed by start_game up to the first _next_question's create_task
TriviaStarted ==
    [ kind |-> "trivia",
      is_active |-> TRUE,
      question_number |-> 0,
      current_question |-> 0,          \* index of the question presented
      round_locked |-> FALSE,
      already_answered |-> {},
      answers |-> [p \in {} |-> 0],
      buzz_times |-> <<>>,
      time_remaining |-> TimeLimit,
      scores |-> [p \in Roster |-> 0],
      order |-> players,               \* the list start_game filled the score table from
      timer_task |-> "created",        \* where the task self.timer_task refers to stands ("done": finished or cancelled)
      stale |-> NoStale,               \* live timer tasks self.timer_task no longer refers to, per position
      answering |-> 0,                 \* handle_answer coroutines in their asyncio.sleep(3)
      timed_out |-> -1,                \* the question the last time_up was published for (-1: none yet)
      n_finished |-> 0,
      n_stopped |-> 0 ]

\* round_locked after an accepted buzz: handle_buzz never assigns it
LockAfterBuzz(g) == g.round_locked

\* handle_buzz's acceptance test
BuzzValid(g, p) == g.is_active /\ p \notin g.already_answered

\* handle_buzz's effect on the session when the buzz is accepted
BuzzRecorded(g, p) ==
    [g EXCEPT !.already_answered = @ \cup {p},
              !.buzz_times = Append(@, BuzzInfo(@, p)),
              !.round_locked = LockAfterBuzz(g)]

\* handle_answer without the round_locked test
AnswerAllowedUnlocked(g, p) == g.is_active /\ p \in g.already_answered

\* handle_answer's acceptance test
AnswerAllowed(g, p) == g.is_active /\ g.round_locked /\ p \in g.already_answered

\* points without the floor of 50
PointsUnfloored(time_limit, time_remaining) == 100 - (time_limit - time_remaining) * 5

\* points for a correct answer
Points(time_limit, time_remaining) ==
    LET v == 100 - (time_limit - time_remaining) * 5 IN IF v > 50 THEN v ELSE 50

\* handle_answer's scoring: the score table after player p's answer
Scored(scores, p, correct, time_limit, time_remaining) ==
    [scores EXCEPT ![p] = IF correct THEN @ + Points(time_limit, time_remaining) ELSE @]

\* time limits of a question (the sample questions all have the default) and the scores
\* an answering player may already have
TimeLimits == {10, 20, TimeLimit}
PriorScores == {0, 50}

\* handle_answer's scoring applied to an answer idx of player p to question q, with the
\* question's time limit and the time left; the step records the table before and after
ScoreAnswer(p, idx, q, time_limit, time_remaining, prior) ==
    LET before == [r \in Players |-> IF r = p THEN prior ELSE 75]
        correct == idx = CorrectAnswers[q]
    IN /\ last' = StepData("score", 0, p, "none", <<>>,
                           [ time_limit |-> time_limit,
                             time_remaining |-> time_remaining,
                             correct |-> correct,
                             before |-> before,
                             after |-> Scored(before, p, correct, time_limit, time_remaining) ])
       /\ UNCHANGED <<game_type, status, is_ready, games, registry, buzzer, roomvars, storevars>>

\* handle_answer's effect up to its asyncio.sleep(3)
AnswerRecorded(g, p, idx) ==
    LET correct == idx = CorrectAnswers[g.current_question + 1]
        ans == [q \in DOMAIN g.answers \cup {p} |-> IF q = p THEN idx ELSE g.answers[q]]
    IN [g EXCEPT !.answers = ans,
                 !.scores = Scored(@, p, correct, TimeLimit, g.time_remaining),
                 !.answering = @ + 1]

\* TriviaGame._end_game's effect on the session; when the lobby is gone, lobby["players"]
\* raises on the first score card, before anything is published
TriviaEnded(g) ==
    IF lobbies THEN [g EXCEPT !.is_active = FALSE, !.n_finished = Inc(@)]
               ELSE [g EXCEPT !.is_active = FALSE]

\* TriviaGame._next_question: the session after it, called by a coroutine that is not
\* one of the session's live timer tasks (or has already been taken out of them)
NextQuestion(g) ==
    IF g.question_number >= NumQuestions
    THEN TriviaEnded(g)
    ELSE [g EXCEPT !.round_locked = FALSE,
                   !.already_answered = {},
                   !.answers = [p \in {} |-> 0],
                   !.buzz_times = <<>>,
                   !.current_question = g.question_number,
                   !.time_remaining = TimeLimit,
                   !.stale = IF g.timer_task = "done" THEN @
                             ELSE [@ EXCEPT ![g.timer_task] = @ + 1],
                   !.timer_task = "created"]

\* what _next_question publishes
NextQuestionEvents(g) ==
    IF g.question_number >= NumQuestions
    THEN IF lobbies THEN <<"game_finished">> ELSE <<>>
    ELSE <<"new_question", "buzzer_cleared">>

\* the payload of the last event _next_question publishes: the score cards when the
\* game ends
NextQuestionData(g) ==
    IF g.question_number >= NumQuestions /\ lobbies
    THEN RankingIn(g.order, g.scores)
    ELSE <<>>

\* lobby["status"] after _next_question
NextQuestionStatus(g) ==
    IF g.question_number >= NumQuestions THEN "finished" ELSE status

\* what _next_question saves: the lobby with status finished when the game ends
NextQuestionSaved(g) ==
    IF g.question_number >= NumQuestions /\ lobbies
    THEN SaveLobby(NextQuestionStatus(g))
    ELSE UNCHANGED <<status, storevars>>

\* TriviaGame.stop_game
TriviaStopped(g) ==
    [g EXCEPT !.timer_task = "done", !.is_active = FALSE, !.n_stopped = Inc(@)]

\* a position taken from the buzzed set before the player is added to it
BuzzPositionBeforeMark(g, p) == Cardinality(g.already_answered)

\* the position handle_buzz publishes: len(already_answered), the player included
BuzzPosition(g, p) == Cardinality(g.already_answered \cup {p})

\* player_action "buzz" routed to the registered trivia game
Buzz(p) ==
    /\ game_type = "trivia"
    /\ registry # 0
    /\ LET g == games[registry] IN
         IF BuzzValid(g, p)
         THEN /\ games' = [games EXCEPT ![registry] = BuzzRecorded(g, p)]
              /\ last' = StepData("buzz", registry, p, "true", <<"player_buzzed">>,
                                   [player_id |-> p, position |-> BuzzPosition(g, p)])
         ELSE /\ games' = games
              /\ last' = Step("buzz", registry, p, "false", <<>>)
    /\ UNCHANGED <<game_type, status, is_ready, registry, buzzer, roomvars, storevars>>

\* player_action "answer" routed to the registered trivia game, up to its first suspension
Answer(p, idx) ==
    /\ game_type = "trivia"
    /\ registry # 0
    /\ LET g == games[registry] IN
         IF AnswerAllowed(g, p)
         THEN /\ LiveTasks(g) < MaxTasks
              /\ games' = [games EXCEPT ![registry] = AnswerRecorded(g, p, idx)]
              /\ last' = Step("answer", registry, p, "pending", <<"answer_result">>)
         ELSE /\ games' = games
              /\ last' = Step("answer", registry, p, "false", <<>>)
    /\ UNCHANGED <<game_type, status, is_ready, registry, buzzer, roomvars, storevars>>

\* game_action "next_question" from the host: a direct call of _next_question
HostNextQuestion ==
    /\ game_type = "trivia"
    /\ registry # 0
    /\ LET g == games[registry] IN
         /\ g.question_number < NumQuestions => LiveTasks(g) < MaxTasks
         /\ games' = [games EXCEPT ![registry] = NextQuestion(g)]
         /\ last' = StepData("next_question", registry, "-", "none",
                              NextQuestionEvents(g), NextQuestionData(g))
         /\ NextQuestionSaved(g)
    /\ UNCHANGED <<game_type, is_ready, registry, buzzer, roomvars>>

\* the session with one of its live timer tasks taken out: the referenced one (cur)
\* or a stale one standing at pc
WithoutTimer(g, cur, pc) ==
    IF cur THEN [g EXCEPT !.timer_task = "done"]
           ELSE [g EXCEPT !.stale[pc] = @ - 1]

\* the session with the running timer task put to sleep at pc
WithTimerAt(g, cur, pc) ==
    IF cur THEN [g EXCEPT !.timer_task = pc]
           ELSE [g EXCEPT !.stale[pc] = @ + 1]

\* _run_question_timer from its loop test to the next sleep or the end; g has the
\* running task taken out
TimerLoop(g, s, cur) ==
    IF g.time_remaining > 0
    THEN /\ games' = [games EXCEPT ![s] = WithTimerAt(g, cur, "tick")]
         /\ last' = Step("timer", s, "-", "none", <<"tick">>)
    ELSE IF g.is_active
    THEN /\ games' = [games EXCEPT ![s] = WithTimerAt([g EXCEPT !.timed_out = g.current_question],
                                                     cur, "timeup")]
         /\ last' = StepData("timer", s, "-", "none", <<"time_up">>,
                              <<CorrectAnswers[g.current_question + 1]>>)
    ELSE /\ games' = Collect([games EXCEPT ![s] = g], registry)
         /\ last' = Step("timer", s, "-", "none", <<>>)

\* one run of a _run_question_timer task of session s, from a wake-up to the next sleep
\* or the end
TriviaTimer(s, cur, pc) ==
    /\ s \in 1..Len(games)
    /\ games[s].kind = "trivia"
    /\ IF cur THEN games[s].timer_task = pc ELSE games[s].stale[pc] > 0
    /\ LET g == WithoutTimer(games[s], cur, pc) IN
         CASE pc = "created" ->
                /\ TimerLoop(g, s, cur)
                /\ UNCHANGED <<status, storevars>>
           [] pc = "tick" ->
                /\ TimerLoop([g EXCEPT !.time_remaining = @ - 1], s, cur)
                /\ UNCHANGED <<status, storevars>>
           [] pc = "timeup" ->
                LET h == [g EXCEPT !.question_number = @ + 1] IN
                /\ games' = Collect([games EXCEPT ![s] = NextQuestion(h)], registry)
                /\ last' = StepData("timer", s, "-", "none",
                                    NextQuestionEvents(h), NextQuestionData(h))
                /\ NextQuestionSaved(h)
    /\ UNCHANGED <<game_type, is_ready, registry, buzzer, roomvars>>

\* a handle_answer coroutine of session s wakes from its asyncio.sleep(3)
AnswerResume(g, s) ==
    LET h == [g EXCEPT !.answering = @ - 1, !.question_number = @ + 1] IN
    /\ games' = Collect([games EXCEPT ![s] = NextQuestion(h)], registry)
    /\ last' = StepData("answer", s, "-", "true", NextQuestionEvents(h), NextQuestionData(h))
    /\ NextQuestionSaved(h)

\* the event loop resumes a sleeping coroutine of trivia session s: a timer task
\* (kind "timer": the referenced one or a stale one, standing at pc) or an answer handler
TriviaResume(s, kind, cur, pc) ==
    /\ s \in 1..Len(games)
    /\ games[s].kind = "trivia"
    /\ IF kind = "timer"
       THEN TriviaTimer(s, cur, pc)
       ELSE /\ games[s].answering > 0
            /\ AnswerResume(games[s], s)
            /\ UNCHANGED <<game_type, is_ready, registry, buzzer, roomvars>>

----------------------------------------------------------------------------
(* The room: routers/ws_routes.py *)

\* player_ready / player_unready
PlayerReady(p, b) ==
    /\ game_type \in {"clicker", "trivia"}
    /\ status = "waiting"
    /\ is_ready' = [is_ready EXCEPT ![p] = b]
    /\ last' = Step("ready", 0, "-", "none", <<"lobby_updated">>)
    /\ SaveLobby(status)
    /\ UNCHANGED <<game_type, games, registry, buzzer, roomvars>>

\* the session object start_game creates and starts for the lobby's game type
NewGame == IF game_type = "clicker" THEN ClickerStarted ELSE TriviaStarted

\* what the new session publishes while it starts
NewGameEvents ==
    IF game_type = "clicker" THEN <<"game_started">>
    ELSE <<"game_started", "new_question", "buzzer_cleared">>

\* the registry entry of the room after start_game stored the new session
Registered(n) == n

\* game_action "start_game" from the host
StartGame ==
    /\ game_type \in {"clicker", "trivia"}
    /\ IF ~AllReady
       THEN /\ last' = Step("start_game", 0, "-", "none", <<"error">>)
            /\ UNCHANGED <<status, games, registry, storevars>>
       ELSE /\ Len(games) < MaxSessions
            /\ SaveLobby("active")
            /\ games' = Collect(Append(games, NewGame), Registered(Len(games) + 1))
            /\ registry' = Registered(Len(games) + 1)
            /\ last' = Step("start_game", Len(games) + 1, "-", "none", NewGameEvents)
    /\ UNCHANGED <<game_type, is_ready, buzzer, roomvars>>

\* stop_game of the session's class
Stopped(g) == IF g.kind = "clicker" THEN ClickerStopped(g) ELSE TriviaStopped(g)

\* game_action "end_game" from the host
EndGame ==
    /\ game_type \in {"clicker", "trivia"}
    /\ IF registry # 0
       THEN /\ games' = Collect([games EXCEPT ![registry] = Stopped(games[registry])], 0)
            /\ last' = Step("end_game", registry, "-", "none", <<"game_stopped">>)
       ELSE /\ games' = games
            /\ last' = Step("end_game", 0, "-", "none", <<>>)
    /\ registry' = 0
    /\ SaveLobby("waiting")
    /\ UNCHANGED <<game_type, is_ready, buzzer, roomvars>>

----------------------------------------------------------------------------
(* The room's roster, sockets and teardown: routers/lobby_routes.py, the connection    *)
(* handling of routers/ws_routes.py, utils/storage.py.  Rooms are created by           *)
(* create_lobby, whose game_type is "clicker" or "trivia".  A player has at most one   *)
(* socket at a time, and a send to a socket whose coroutine is in its receive loop      *)
(* succeeds; the send loops themselves are modelled further below.                      *)

\* the game actions a client can send
GameActions == {"start_game", "end_game", "next_question"}

\* a test that lets every player of the lobby control the game
IsAnyPlayer(p) == p \in Roster

\* handle_game_action's test: the sender is in the lobby and its entry has is_host (set
\* by create_lobby for the host player only, and copied unchanged by every upsert)
IsHost(p) == p \in Roster /\ p = Host

\* lobby["players"] after upsert_player(p): an existing entry is replaced in place, a
\* missing one is appended
Upserted(p) == IF p \in Roster THEN players ELSE Append(players, p)

\* lobby["players"] after remove_player(p)
Removed(p) == SelectSeq(players, LAMBDA q : q # p)

\* POST /lobbies/join: a new player (with a player_id nobody has) joins the waiting lobby
Join(p) ==
    /\ game_type \in {"clicker", "trivia"}
    /\ p # Host /\ p \notin Roster /\ sockets[p].state = "none"
    /\ lobbies /\ status = "waiting"
    /\ players' = Upserted(p)
    /\ is_ready' = [is_ready EXCEPT ![p] = FALSE]
    /\ connected' = connected \cup {p}
    /\ locks' = TRUE
    /\ last' = Step("join", 0, p, "none", <<"player_joined">>)
    /\ UNCHANGED <<game_type, status, games, registry, buzzer, lobbies, sockets, connections,
                   storage_connections, sending, cleanup_tasks>>

\* DELETE /lobbies/{room_code}/players/{player_id}
Leave(p) ==
    /\ game_type \in {"clicker", "trivia"}
    /\ lobbies /\ p \in Roster
    /\ players' = Removed(p)
    /\ is_ready' = [is_ready EXCEPT ![p] = FALSE]
    /\ connected' = connected \ {p}
    /\ locks' = TRUE
    /\ cleanup_tasks' = IF Removed(p) = <<>> THEN Scheduled(cleanup_tasks) ELSE cleanup_tasks
    /\ last' = Step("leave", 0, p, "none", <<"player_left">>)
    /\ UNCHANGED <<game_type, status, games, registry, buzzer, lobbies, sockets, connections,
                   storage_connections, sending>>

\* websocket_endpoint up to its receive loop: the client of a player of the lobby connects
Connect(p) ==
    /\ game_type \in {"clicker", "trivia"}
    /\ sockets[p].state = "none"
    /\ lobbies /\ p \in Roster
    /\ connections' = connections \cup {p}
    /\ sockets' = [sockets EXCEPT ![p] = Opened(is_ready[p])]
    /\ connected' = connected \cup {p}
    /\ locks' = TRUE
    /\ last' = Step("connect", 0, p, "none", <<"player_connected">>)
    /\ UNCHANGED <<game_type, status, is_ready, games, registry, buzzer, lobbies, players,
                   storage_connections, sending, cleanup_tasks>>

\* websocket_endpoint's WebSocketDisconnect handler: the connection is dropped and the
\* copy of the player's entry made at connect time is upserted with connected = False
Disconnect(p) ==
    /\ game_type \in {"clicker", "trivia"}
    /\ sockets[p].state = "open"
    /\ connections' = connections \ {p}
    /\ sockets' = [sockets EXCEPT ![p] = NoSocket]
    /\ IF lobbies
       THEN /\ players' = Upserted(p)
            /\ is_ready' = [is_ready EXCEPT ![p] = sockets[p].is_ready]
            /\ connected' = connected \ {p}
       ELSE UNCHANGED <<players, is_ready, connected>>
    /\ locks' = TRUE
    /\ last' = Step("disconnect", 0, p, "none", <<"player_disconnected">>)
    /\ UNCHANGED <<game_type, status, games, registry, buzzer, lobbies, storage_connections,
                   sending, cleanup_tasks>>

\* the cleanup task wakes from its sleep: the lobby, the room's storage connections, its
\* lock and the task's entry are popped
Cleanup ==
    /\ game_type \in {"clicker", "trivia"}
    /\ cleanup_tasks > 0
    /\ lobbies' = FALSE
    /\ players' = <<>>
    /\ connected' = {}
    /\ storage_connections' = NoConnections
    /\ locks' = FALSE
    /\ cleanup_tasks' = cleanup_tasks - 1
    /\ last' = Step("cleanup", 0, "-", "none", <<>>)
    /\ UNCHANGED <<game_type, status, is_ready, games, registry, buzzer, sockets, connections,
                   sending>>

\* handle_game_action: the action a of client p, dropped unless p is the host
GameAction(p, a) ==
    IF ~IsHost(p)
    THEN /\ last' = Step("game_action", 0, p, "ignored", <<>>)
         /\ UNCHANGED <<game_type, status, is_ready, games, registry, buzzer, roomvars, storevars>>
    ELSE CASE a = "start_game" -> StartGame
           [] a = "end_game" -> EndGame
           [] a = "next_question" -> HostNextQuestion

\* handle_websocket_message: a message of the connected client of p; it is dropped
\* when the lobby is gone or p is not in it
ClientMessage(p) ==
    /\ sockets[p].state = "open"
    /\ lobbies /\ p \in Roster
    /\ \/ \E b \in BOOLEAN : PlayerReady(p, b)
       \/ \E a \in GameActions : GameAction(p, a)
       \/ Click(p)
       \/ Buzz(p)
       \/ \E idx \in AnswerIdx : Answer(p, idx)

LobbyNext ==
    \/ \E p \in Players : Join(p)
    \/ \E p \in Players : Leave(p)
    \/ \E p \in Players : Connect(p)
    \/ \E p \in Players : Disconnect(p)
    \/ Cleanup

----------------------------------------------------------------------------
(* The send loops: storage.publish (utils/storage.py) and broadcast_to_room           *)
(* (routers/ws_routes.py).  Both iterate over the room's set of connections and await  *)
(* ws.send_json for each; that await is where the call can be suspended, so other      *)
(* coroutines, other send loops among them, run between two sends of one call.  The    *)
(* set is iterated in hash order (any order here), and a set iterator that finds the   *)
(* set's size changed since the iteration began raises RuntimeError when it is         *)
(* advanced.                                                                           *)

\* a socket whose client has gone while its coroutine has not yet handled the
\* disconnect: the connection is still registered and a send to it raises
Closed == [state |-> "closed", is_ready |-> FALSE]

\* the two dictionaries of connections: storage.connections and ws_routes.connections
Vias == {"storage", "ws"}

\* the function that reads the dictionary
OpOf(via) == IF via = "storage" THEN "publish" ELSE "broadcast_to_room"

\* room_code in the dictionary (ws_routes.connections keeps the room's set, even empty)
HasRoom(via) == IF via = "storage" THEN storage_connections.has_room ELSE TRUE

\* the room's registered connections in the dictionary
ConnectionsOf(via) == IF via = "storage" THEN storage_connections.conns ELSE connections

\* what a call that has ended leaves: what its caller sees (it returned or raised), the
\* connections it sent to, those whose send failed and those it never reached
Outcome(s, ret) ==
    StepData(OpOf(s.via), 0, "-", ret, <<>>,
             [via |-> s.via, sent |-> s.sent, failed |-> s.failed, todo |-> s.todo])

\* the end of the send loop: the connections that failed are discarded (publish also
\* deletes the room's entry when the set is left empty) and the call returns
Deregistered(k, s) ==
    /\ IF s.via = "storage"
       THEN /\ storage_connections' =
                   [has_room |-> storage_connections.conns \ s.failed # {},
                    conns |-> storage_connections.conns \ s.failed]
            /\ UNCHANGED connections
       ELSE /\ connections' = connections \ s.failed
            /\ UNCHANGED storage_connections
    /\ sending' = [sending EXCEPT ![k] = Idle]
    /\ last' = Outcome(s, "returned")

\* the for statement asks the set iterator for the next connection: RuntimeError when
\* the set's size has changed, the end of the loop when nothing is left, otherwise the
\* call is suspended in send_json for the next connection
Advance(k, s) ==
    IF Cardinality(ConnectionsOf(s.via)) # s.size
    THEN /\ sending' = [sending EXCEPT ![k] = Idle]
         /\ last' = Outcome(s, "raised")
         /\ UNCHANGED <<connections, storage_connections>>
    ELSE IF s.todo = {}
         THEN Deregistered(k, s)
         ELSE /\ \E c \in s.todo :
                   sending' = [sending EXCEPT ![k] = [s EXCEPT !.pc = "sending", !.at = c,
                                                                !.todo = s.todo \ {c}]]
              /\ last' = Step(OpOf(s.via), 0, "-", "suspended", <<>>)
              /\ UNCHANGED <<connections, storage_connections>>

\* a call of publish (via = "storage") or broadcast_to_room (via = "ws") up to its first
\* send_json; it returns at once when the dictionary does not have the room
PublishBegin(k, via) ==
    /\ sending[k].pc = "idle"
    /\ IF ~HasRoom(via)
       THEN /\ last' = Outcome([Idle EXCEPT !.via = via], "returned")
            /\ UNCHANGED <<connections, storage_connections, sending>>
       ELSE Advance(k, [Idle EXCEPT !.via = via, !.size = Cardinality(ConnectionsOf(via)),
                                     !.todo = ConnectionsOf(via)])
    /\ UNCHANGED <<game_type, status, is_ready, games, registry, buzzer, lobbies, players,
                   connected, sockets, storevars>>

\* send_json of call k ends: it succeeded, or it raised and the connection is put on
\* the call's disconnected list; then the loop goes on
SendResume(k) ==
    /\ sending[k].pc = "sending"
    /\ LET s == sending[k]
           ok == sockets[s.at].state = "open"
       IN  Advance(k, [s EXCEPT !.sent = IF ok THEN s.sent \cup {s.at} ELSE s.sent,
                                !.failed = IF ok THEN s.failed ELSE s.failed \cup {s.at}])
    /\ UNCHANGED <<game_type, status, is_ready, games, registry, buzzer, lobbies, players,
                   connected, sockets, storevars>>

FanoutNext ==
    \/ \E k \in Senders, via \in Vias : PublishBegin(k, via)
    \/ \E k \in Senders : SendResume(k)

----------------------------------------------------------------------------
(* Buzzer: game_logic/buzzer_game.py *)

\* the state of a BuzzerGame before start_game
BuzzerGameState0 ==
    [ is_active |-> FALSE,
      round_number |-> 0,
      scores |-> [p \in {} |-> 0],
      already_buzzed |-> {},
      buzz_times |-> <<>>,
      buzzer_status |-> "disabled",
      tasks |-> {},          \* the _run_buzzer_countdown tasks alive: the round that started each, the ticks it has published
      started |-> FALSE,     \* start_game has been called
      n_awards |-> 0,
      n_finished |-> 0,
      n_stopped |-> 0 ]

\* a reset that forgets to clear the set of players who have buzzed
RoundResetKeepingBuzzed(b) ==
    [b EXCEPT !.round_number = @ + 1,
              !.buzz_times = <<>>,
              !.buzzer_status = "disabled"]

\* new_round's reset of the round state
RoundReset(b) ==
    [b EXCEPT !.round_number = @ + 1,
              !.already_buzzed = {},
              !.buzz_times = <<>>,
              !.buzzer_status = "disabled"]

\* BuzzerGame.start_game
BzStart ==
    /\ game_type = "buzzer"
    /\ ~buzzer.started
    /\ buzzer' = RoundReset([buzzer EXCEPT !.is_active = TRUE,
                                           !.round_number = 0,
                                           !.scores = [p \in Players |-> 0],
                                           !.started = TRUE])
    /\ last' = Step("start_game", 0, "-", "none", <<"game_started", "new_round", "buzzer_cleared">>)
    /\ UNCHANGED <<game_type, status, is_ready, games, registry, roomvars, storevars>>

\* BuzzerGame.new_round
BzNewRound ==
    /\ game_type = "buzzer"
    /\ IF ~buzzer.is_active
       THEN /\ buzzer' = buzzer
            /\ last' = Step("new_round", 0, "-", "none", <<>>)
       ELSE /\ buzzer.round_number < MaxRounds
            /\ buzzer' = RoundReset(buzzer)
            /\ last' = Step("new_round", 0, "-", "none", <<"new_round", "buzzer_cleared">>)
    /\ UNCHANGED <<game_type, status, is_ready, games, registry, roomvars, storevars>>

\* buzzer_live's guard
LiveAllowed(b) == b.is_active /\ b.buzzer_status = "disabled"

\* BuzzerGame.buzzer_live
BzLive ==
    /\ game_type = "buzzer"
    /\ IF ~LiveAllowed(buzzer)
       THEN /\ buzzer' = buzzer
            /\ last' = Step("buzzer_live", 0, "-", "none", <<>>)
       ELSE /\ buzzer' = [buzzer EXCEPT !.buzzer_status = "countdown",
                                        !.tasks = @ \cup {[round |-> buzzer.round_number, ticks |-> 0]}]
            /\ last' = Step("buzzer_live", 0, "-", "none", <<"buzzer_countdown_start">>)
    /\ UNCHANGED <<game_type, status, is_ready, games, registry, roomvars, storevars>>

\* the session after a countdown task has slept through its last tick
Activated(b, t) == [b EXCEPT !.buzzer_status = "live", !.tasks = @ \ {t}]

\* one run of a _run_buzzer_countdown task, from a wake-up to the next sleep or the end
BzCountdown(t) ==
    /\ game_type = "buzzer"
    /\ t \in buzzer.tasks
    /\ IF t.ticks < Countdown
       THEN /\ buzzer' = [buzzer EXCEPT !.tasks = (@ \ {t}) \cup {[t EXCEPT !.ticks = @ + 1]}]
            /\ last' = Step("countdown", 0, "-", "none", <<"buzzer_countdown_tick">>)
       ELSE /\ buzzer' = Activated(buzzer, t)
            /\ last' = Step("countdown", 0, "-", "none", <<"buzzers_live">>)
    /\ UNCHANGED <<game_type, status, is_ready, games, registry, roomvars, storevars>>

\* handle_buzz letting a buzz through as soon as the host has started the countdown
GateOpenDuringCountdown(b) == b.buzzer_status # "disabled"

\* the anti-cheat test of handle_buzz
GateOpen(b) == b.buzzer_status = "live"

\* handle_buzz without its once-per-round test
NotYetBuzzedUnchecked(b, p) == TRUE

\* the once-per-round test of handle_buzz
NotYetBuzzed(b, p) == p \notin b.already_buzzed

\* a buzz_blocked event that does not say who buzzed
BuzzBlockedAnonymous(p) == [player_id |-> "-", reason |-> "early_buzz"]

\* the payload of buzz_blocked
BuzzBlocked(p) == [player_id |-> p, reason |-> "early_buzz"]

\* BuzzerGame.handle_buzz
BzBuzz(p) ==
    /\ game_type = "buzzer"
    /\ IF ~buzzer.is_active
       THEN /\ buzzer' = buzzer
            /\ last' = Step("buzz", 0, p, "false", <<>>)
       ELSE IF ~GateOpen(buzzer)
       THEN /\ buzzer' = buzzer
            /\ last' = StepData("buzz", 0, p, "false", <<"buzz_blocked">>, BuzzBlocked(p))
       ELSE IF ~NotYetBuzzed(buzzer, p)
       THEN /\ buzzer' = buzzer
            /\ last' = Step("buzz", 0, p, "false", <<>>)
       ELSE /\ buzzer' = [buzzer EXCEPT
                   !.already_buzzed = @ \cup {p},
                   !.buzz_times = Append(@, BuzzInfo(@, p))]
            /\ last' = Step("buzz", 0, p, "true", <<"player_buzzed">>)
    /\ UNCHANGED <<game_type, status, is_ready, games, registry, roomvars, storevars>>

\* BuzzerGame.award_points
BzAward(p, points) ==
    /\ game_type = "buzzer"
    /\ IF ~buzzer.is_active
       THEN /\ buzzer' = buzzer
            /\ last' = Step("award_points", 0, p, "false", <<>>)
       ELSE /\ buzzer.n_awards < MaxAwards
            /\ buzzer' = [buzzer EXCEPT
                   !.scores = [q \in DOMAIN @ \cup {p} |->
                                 (IF q \in DOMAIN @ THEN @[q] ELSE 0)
                                 + (IF q = p THEN points ELSE 0)],
                   !.n_awards = @ + 1]
            /\ last' = Step("award_points", 0, p, "true", <<"points_awarded">>)
    /\ UNCHANGED <<game_type, status, is_ready, games, registry, roomvars, storevars>>

\* BuzzerGame.end_game
BzEnd ==
    /\ game_type = "buzzer"
    /\ buzzer' = [buzzer EXCEPT !.is_active = FALSE, !.n_finished = Inc(@)]
    /\ last' = StepData("end_game", 0, "-", "none", <<"game_finished">>, Ranking(buzzer.scores))
    /\ UNCHANGED <<game_type, status, is_ready, games, registry, roomvars, storevars>>

\* BuzzerGame.stop_game
BzStop ==
    /\ game_type = "buzzer"
    /\ buzzer' = [buzzer EXCEPT !.is_active = FALSE, !.n_stopped = Inc(@)]
    /\ last' = Step("stop_game", 0, "-", "none", <<"game_stopped">>)
    /\ UNCHANGED <<game_type, status, is_ready, games, registry, roomvars, storevars>>

----------------------------------------------------------------------------
(* The system *)

Init ==
    /\ game_type \in GameTypes
    /\ status = "waiting"
    /\ is_ready = [p \in Players |-> p = Host]
    /\ games = <<>>
    /\ registry = 0
    /\ buzzer = BuzzerGameState0
    /\ last = Step("init", 0, "-", "none", <<>>)
    /\ lobbies = TRUE
    /\ players = PlayerOrder
    /\ connected = Players
    /\ sockets = [p \in Players |-> Opened(p = Host)]
    /\ connections = Players
    /\ storage_connections = NoConnections
    /\ sending = [k \in Senders |-> Idle]
    /\ locks = TRUE
    /\ cleanup_tasks = 0

RoomNext ==
    \/ \E p \in Players, b \in BOOLEAN : PlayerReady(p, b)
    \/ EndGame

ClickerNext ==
    \/ \E p \in Players \cup {Stranger} : Click(p)
    \/ \E s \in 1..MaxSessions : ClickerTimer(s)

TriviaNext ==
    \/ \E p \in Players : Buzz(p)
    \/ \E p \in Players, idx \in AnswerIdx : Answer(p, idx)
    \/ HostNextQuestion
    \/ \E s \in 1..MaxSessions, kind \in {"timer", "answer"}, cur \in BOOLEAN, pc \in TimerPcs :
         TriviaResume(s, kind, cur, pc)

BuzzerNext ==
    \/ BzStart
    \/ BzNewRound
    \/ BzLive
    \/ \E t \in buzzer.tasks : BzCountdown(t)
    \/ \E p \in Players : BzBuzz(p)
    \/ \E p \in Players, points \in PointValues : BzAward(p, points)
    \/ BzEnd
    \/ BzStop

\* the whole system
Next ==
    RoomNext \/ StartGame \/ ClickerNext \/ TriviaNext \/ BuzzerNext \/ LobbyNext \/ FanoutNext

Spec == Init /\ [][Next]_vars

\* a clicker room, with sessions replaced by later start_game calls
InitClicker == Init /\ game_type = "clicker"

NextClicker == RoomNext \/ StartGame \/ ClickerNext

SpecClicker == InitClicker /\ [][NextClicker]_vars

\* start_game in a room that has had no session yet
StartFirstGame == games = <<>> /\ StartGame

\* a trivia room followed through one session
InitTrivia == Init /\ game_type = "trivia"

NextTrivia == RoomNext \/ StartFirstGame \/ TriviaNext

SpecTrivia == InitTrivia /\ [][NextTrivia]_vars

\* a clicker room followed through one session
NextClickerSession == RoomNext \/ StartFirstGame \/ ClickerNext

SpecClickerSession == InitClicker /\ [][NextClickerSession]_vars

\* the event loop resumes a timer task whose sleep has ended
ClickerTimers == \E s \in 1..MaxSessions : ClickerTimer(s)

FairClickerSession == SpecClickerSession /\ WF_vars(ClickerTimers)

\* the event loop resumes a coroutine of a trivia session whose sleep has ended
TriviaResumes ==
    \E s \in 1..MaxSessions, kind \in {"timer", "answer"}, cur \in BOOLEAN, pc \in TimerPcs :
        TriviaResume(s, kind, cur, pc)

FairTrivia == SpecTrivia /\ WF_vars(TriviaResumes)

\* the scoring of trivia answers, over all time limits and times left
NextScoring ==
    \E p \in Players, idx \in AnswerIdx, q \in 1..NumQuestions, time_limit \in TimeLimits,
       prior \in PriorScores :
        \E time_remaining \in 0..time_limit :
            ScoreAnswer(p, idx, q, time_limit, time_remaining, prior)

SpecScoring == InitTrivia /\ [][NextScoring]_vars

\* one session of any of the three games
NextSessions == RoomNext \/ StartFirstGame \/ ClickerNext \/ TriviaNext \/ BuzzerNext

SpecSessions == Init /\ [][NextSessions]_vars

\* a buzzer session
InitBuzzer == Init /\ game_type = "buzzer"

SpecBuzzer == InitBuzzer /\ [][BuzzerNext]_vars

\* one session of a game with buzz rounds: a trivia room or a buzzer session
InitRounds == Init /\ game_type \in {"trivia", "buzzer"}

NextRounds == RoomNext \/ StartFirstGame \/ TriviaNext \/ BuzzerNext

SpecRounds == InitRounds /\ [][NextRounds]_vars

\* a clicker room from its creation by the host: players join and leave, clients connect,
\* send messages and disconnect, the host starts at most one session, the room is torn down
InitLobby ==
    /\ game_type = "clicker"
    /\ status = "waiting"
    /\ is_ready = [p \in Players |-> p = Host]
    /\ games = <<>>
    /\ registry = 0
    /\ buzzer = BuzzerGameState0
    /\ last = Step("init", 0, "-", "none", <<>>)
    /\ lobbies = TRUE
    /\ players = <<Host>>
    /\ connected = {Host}
    /\ sockets = [p \in Players |-> NoSocket]
    /\ connections = {}
    /\ storage_connections = NoConnections
    /\ sending = [k \in Senders |-> Idle]
    /\ locks = TRUE
    /\ cleanup_tasks = 0

\* a message of a connected client, with start_game only in a room that has had no session
FirstGameMessage(p) == ClientMessage(p) /\ (last'.op = "start_game" => games = <<>>)

NextLobby ==
    \/ LobbyNext
    \/ \E p \in Players : FirstGameMessage(p)
    \/ ClickerTimers

SpecLobby == InitLobby /\ [][NextLobby]_vars

\* the send loops alone: a room whose dictionaries hold connections, some of them to
\* clients that have gone, and calls of publish and broadcast_to_room that overlap
InitFanout ==
    /\ game_type = "clicker"
    /\ status = "waiting"
    /\ is_ready = [p \in Players |-> p = Host]
    /\ games = <<>>
    /\ registry = 0
    /\ buzzer = BuzzerGameState0
    /\ last = Step("init", 0, "-", "none", <<>>)
    /\ lobbies = TRUE
    /\ players = PlayerOrder
    /\ connected = Players
    /\ sockets \in [Players -> {Opened(FALSE), Closed}]
    /\ connections \in SUBSET Players \ {{}}
    /\ storage_connections \in {[has_room |-> TRUE, conns |-> c] : c \in SUBSET Players \ {{}}}
    /\ sending = [k \in Senders |-> Idle]
    /\ locks = TRUE
    /\ cleanup_tasks = 0

SpecFanout == InitFanout /\ [][FanoutNext]_vars

----------------------------------------------------------------------------
(* Properties *)

Sessions == 1..Len(games)

TriviaSessions == {s \in Sessions : games[s].kind = "trivia"}

LiveSessions == {s \in Sessions : games[s].kind # "collected"}

\* the player_ids of a buzz list, in order
Buzzers(bt) == [i \in 1..Len(bt) |-> bt[i].player_id]

NoDuplicates(seq) == \A i, j \in 1..Len(seq) : seq[i] = seq[j] => i = j

\* the attributes of a trivia session's state object
TriviaState(g) ==
    <<g.is_active, g.question_number, g.current_question, g.round_locked,
      g.already_answered, g.answers, g.buzz_times, g.time_remaining, g.scores>>

\* the attributes of the buzzer session's state object
BuzzerState(b) ==
    <<b.is_active, b.round_number, b.scores, b.already_buzzed, b.buzz_times, b.buzzer_status>>

\* C1: a buzz record is appended to the buzzer round's list only in a step that starts
\* and ends with the gate live, a non-empty list implies a live gate, and a buzz
\* made while the gate is disabled or in countdown returns false and records nothing.
C1_BuzzOnlyWhileLive ==
    /\ [](buzzer.buzz_times # <<>> => buzzer.buzzer_status = "live")
    /\ [][ /\ Len(buzzer'.buzz_times) > Len(buzzer.buzz_times)
              => buzzer.buzzer_status = "live" /\ buzzer'.buzzer_status = "live"
           /\ (last'.op = "buzz" /\ buzzer.buzzer_status # "live")
              => /\ last'.ret = "false"
                 /\ buzzer'.buzz_times = buzzer.buzz_times
                 /\ buzzer'.already_buzzed = buzzer.already_buzzed ]_vars

\* a buzz was accepted in the second round, after an earlier countdown and round reset
C1_Witness ==
    /\ buzzer.round_number = 2
    /\ buzzer.buzzer_status = "live"
    /\ last.op = "buzz" /\ last.ret = "true"
    /\ Len(buzzer.buzz_times) = 1

\* C2: no session broadcasts both game_finished and game_stopped.
C2_OneTerminalEvent ==
    \A s \in Sessions : ~(games[s].n_finished > 0 /\ games[s].n_stopped > 0)

\* C3: a stop/end call that directly follows the same call on the session publishes
\* nothing.
C3_SecondStopSilent ==
    [][ (last.op \in {"stop_game", "end_game"} /\ last'.op = last.op)
        => last'.events = <<>> ]_vars

\* C4: once the buzzer session has ended, buzz, award_points, new_round, buzzer_live and
\* countdown steps change nothing of its state and publish nothing.
C4_TerminalIsFinal ==
    [][ ( /\ buzzer.started /\ ~buzzer.is_active
          /\ last'.op \in {"buzz", "award_points", "new_round", "buzzer_live", "countdown"} )
        => (BuzzerState(buzzer') = BuzzerState(buzzer) /\ last'.events = <<>>) ]_vars

\* an operation of a trivia session that has mutated the session and sleeps before its
\* next mutation: a timer task between time_up and the advance, an answer handler
\* between scoring and the advance
InFlight(g) == g.timer_task = "timeup" \/ g.stale["timeup"] > 0 \/ g.answering > 0

\* C5: while an operation on a trivia session is in flight, the session's state is
\* changed only by that operation's own next mutation (the advance of question_number).
C5_SingleMutator ==
    [][ \A s \in TriviaSessions :
          (s \in DOMAIN games' /\ games'[s].kind = "trivia" /\ InFlight(games[s]))
          => \/ TriviaState(games'[s]) = TriviaState(games[s])
             \/ /\ games'[s].question_number = games[s].question_number + 1
                /\ last'.op \in {"timer", "answer"} /\ last'.sid = s ]_vars

\* live _run_question_timer tasks of a trivia session
LiveTimers(g) ==
    (IF g.timer_task = "done" THEN 0 ELSE 1)
    + g.stale["created"] + g.stale["tick"] + g.stale["timeup"]

\* C6: a room never has two live timer tasks.
C6_OneTimer == \A s \in TriviaSessions : LiveTimers(games[s]) <= 1

\* C7: the room never has two active sessions, and the timer of a session that a later
\* start_game has replaced publishes nothing and leaves the room's status alone.
C7_ReplacedSessionSilent ==
    /\ [](Cardinality({s \in LiveSessions : games[s].is_active}) <= 1)
    /\ [][ (last'.op = "timer" /\ last'.sid < Len(games'))
           => (last'.events = <<>> /\ status' = status) ]_vars

\* C8: in an active trivia session a question with an accepted buzz is locked.
C8_FirstBuzzLocks ==
    \A s \in TriviaSessions :
        (games[s].is_active /\ games[s].buzz_times # <<>>) => games[s].round_locked

C10_OneBuzzPerRound ==
    /\ [](/\ NoDuplicates(Buzzers(buzzer.buzz_times))
          /\ \A s \in TriviaSessions : NoDuplicates(Buzzers(games[s].buzz_times)))
    /\ [][ last'.op = "buzz"
           => IF game_type = "buzzer"
              THEN last'.player \in buzzer.already_buzzed => last'.ret = "false"
              ELSE last'.player \in games[last'.sid].already_answered
                   => last'.ret = "false" ]_vars

\* a second buzz of the same player in a live round has just been turned down
C10_Witness ==
    /\ game_type = "buzzer"
    /\ buzzer.is_active /\ buzzer.buzzer_status = "live"
    /\ last.op = "buzz" /\ last.ret = "false"
    /\ last.player \in buzzer.already_buzzed
    /\ Len(buzzer.buzz_times) = 2

ClickerSessions == {s \in Sessions : games[s].kind = "clicker"}

\* C12: a click by a player of the score table on an active clicker session returns
\* true, raises that player's count by exactly 1, leaves the other counts alone and
\* publishes click_registered with the new count; a count changes in no other step.
C12_ClickCounts ==
    [][ /\ ( /\ last'.op = "click"
             /\ games[last'.sid].is_active
             /\ last'.player \in DOMAIN games[last'.sid].scores )
           => /\ last'.ret = "true"
              /\ games'[last'.sid].scores
                   = [games[last'.sid].scores EXCEPT ![last'.player] = @ + 1]
              /\ last'.events = <<"click_registered">>
              /\ last'.data = <<games'[last'.sid].scores[last'.player]>>
        /\ \A s \in ClickerSessions, p \in Players :
             (games'[s].kind = "clicker" /\ games'[s].scores[p] # games[s].scores[p])
             => /\ last'.op = "click" /\ last'.ret = "true"
                /\ last'.sid = s /\ last'.player = p ]_vars

\* a click was counted for one player after the first tick, the other player has none
C12_Witness ==
    /\ registry # 0
    /\ last.op = "click" /\ last.ret = "true"
    /\ games[registry].ticks # <<>>
    /\ games[registry].scores[last.player] = 1
    /\ \E q \in Players : games[registry].scores[q] = 0

\* C13: a click on a session that is not active, or by a player_id outside the score
\* table, returns false, changes no session and publishes nothing.
C13_InvalidClickRejected ==
    [][ ( /\ last'.op = "click"
          /\ \/ ~games[last'.sid].is_active
             \/ last'.player \notin DOMAIN games[last'.sid].scores )
        => (last'.ret = "false" /\ games' = games /\ last'.events = <<>>) ]_vars

\* a player of the score table has clicked after the session finished
C13_Witness ==
    /\ registry # 0
    /\ games[registry].n_finished > 0
    /\ last.op = "click" /\ last.ret = "false"
    /\ last.player \in DOMAIN games[registry].scores

\* C14: the ticks of a clicker session carry Duration, Duration - 1, ... in that order;
\* game_finished comes only after the tick carrying 1, with time_remaining 0 and the
\* session inactive, and no tick follows it.
C14_TickSequence ==
    /\ [](\A s \in ClickerSessions :
            LET g == games[s] IN
            /\ Len(g.ticks) <= Duration
            /\ \A i \in 1..Len(g.ticks) : g.ticks[i] = Duration - i + 1
            /\ g.n_finished > 0
               => (Len(g.ticks) = Duration /\ g.time_remaining = 0 /\ ~g.is_active))
    /\ [][ /\ (last'.op = "timer" /\ last'.events = <<"tick">>)
              => /\ games[last'.sid].n_finished = 0
                 /\ games'[last'.sid].ticks = Append(games[last'.sid].ticks, last'.data[1])
                 /\ games'[last'.sid].time_remaining = last'.data[1]
           /\ (last'.op = "timer" /\ last'.events = <<"game_finished">>)
              => /\ Len(games[last'.sid].ticks) = Duration
                 /\ games[last'.sid].n_finished = 0 ]_vars

\* the session has just finished after all its ticks, with a click counted on the way
C14_Witness ==
    /\ registry # 0
    /\ last.op = "timer" /\ last.events = <<"game_finished">>
    /\ Len(games[registry].ticks) = Duration
    /\ \E p \in Players : games[registry].scores[p] > 0

PositionIn(order, p) == CHOOSE i \in 1..Len(order) : order[i] = p

\* the score cards r are the entries of the score table, ranked 1..N by descending
\* score, equal scores in the table's insertion order
RankedFrom(r, scores) ==
    /\ Len(r) = Cardinality(DOMAIN scores)
    /\ \A p \in DOMAIN scores :
         \E i \in 1..Len(r) : r[i].player_id = p /\ r[i].score = scores[p]
    /\ \A i \in 1..Len(r) : r[i].rank = i
    /\ \A i, j \in 1..Len(r) :
         i < j => /\ r[i].score >= r[j].score
                  /\ r[i].score = r[j].score
                     => PositionIn(PlayerOrder, r[i].player_id)
                          < PositionIn(PlayerOrder, r[j].player_id)

Extended(before, after) ==
    \/ after = before
    \/ Len(after) = Len(before) + 1 /\ SubSeq(after, 1, Len(before)) = before

\* every record of the list carries its place in the list
Numbered(bt) == \A i \in 1..Len(bt) : bt[i].position = i

\* event e is among the events published by a step
Published(events, e) == \E i \in 1..Len(events) : events[i] = e

\* C11: the records of a round's buzz list carry the positions 1..N in order; between
\* round resets the list only grows, by one record at its end, in a buzz step of the
\* recorded player.
C11_BuzzListAppendOnly ==
    /\ [](/\ Numbered(buzzer.buzz_times)
          /\ \A s \in TriviaSessions : Numbered(games[s].buzz_times))
    /\ [][ /\ ~Published(last'.events, "buzzer_cleared")
              => /\ Extended(buzzer.buzz_times, buzzer'.buzz_times)
                 /\ \A s \in TriviaSessions :
                      games'[s].kind = "trivia"
                      => Extended(games[s].buzz_times, games'[s].buzz_times)
           /\ buzzer'.buzz_times # buzzer.buzz_times /\ buzzer'.buzz_times # <<>>
              => /\ last'.op = "buzz" /\ last'.ret = "true"
                 /\ buzzer'.buzz_times[Len(buzzer'.buzz_times)].player_id = last'.player
           /\ \A s \in TriviaSessions :
                ( /\ games'[s].kind = "trivia"
                  /\ games'[s].buzz_times # games[s].buzz_times
                  /\ games'[s].buzz_times # <<>> )
                => /\ last'.op = "buzz" /\ last'.ret = "true" /\ last'.sid = s
                   /\ games'[s].buzz_times[Len(games'[s].buzz_times)].player_id
                        = last'.player ]_vars

\* the second question of a trivia session has just got its second buzz record
C11_Witness ==
    /\ registry # 0
    /\ games[registry].kind = "trivia"
    /\ games[registry].current_question = 1
    /\ Len(games[registry].buzz_times) = 2
    /\ last.op = "buzz" /\ last.ret = "true"

\* C20: a round reset (new_round, or _next_question presenting a question) leaves the
\* buzz list and the buzzed/answered set empty and the sub-state initial (gate disabled;
\* round unlocked with time_remaining = time_limit), and changes no score.
C20_RoundResetClears ==
    [][ /\ (game_type = "buzzer" /\ Published(last'.events, "new_round"))
           => /\ buzzer'.buzz_times = <<>>
              /\ buzzer'.already_buzzed = {}
              /\ buzzer'.buzzer_status = "disabled"
              /\ last'.op = "new_round" => buzzer'.scores = buzzer.scores
        /\ (game_type = "trivia" /\ Published(last'.events, "new_question"))
           => LET g == games'[last'.sid] IN
              /\ g.buzz_times = <<>>
              /\ g.already_answered = {}
              /\ ~g.round_locked
              /\ g.time_remaining = TimeLimit
              /\ last'.op # "start_game" => g.scores = games[last'.sid].scores ]_vars

\* new_round has just reset a round that had a buzz record and an awarded point
C20_Witness ==
    /\ game_type = "buzzer"
    /\ last.op = "new_round" /\ Published(last.events, "new_round")
    /\ buzzer.round_number = 2
    /\ buzzer.buzz_times = <<>> /\ buzzer.already_buzzed = {}
    /\ \E p \in Players : buzzer.scores[p] # 0

\* C17: a correct answer adds max(100 - 5 * (time_limit - time_remaining), 50) to the
\* answering player's score (75 for limit 30 and 25 left, 50 for 5 left), an incorrect
\* one adds 0, and no other player's score changes.
C17_AnswerPoints ==
    (last.op = "score")
    => LET d == last.data
           v == 100 - 5 * (d.time_limit - d.time_remaining)
           added == d.after[last.player] - d.before[last.player]
       IN /\ d.correct => added = (IF v >= 50 THEN v ELSE 50)
          /\ ~d.correct => added = 0
          /\ \A q \in Players \ {last.player} : d.after[q] = d.before[q]
          /\ (d.correct /\ d.time_limit = 30 /\ d.time_remaining = 25) => added = 75
          /\ (d.correct /\ d.time_limit = 30 /\ d.time_remaining = 5) => added = 50

\* a correct answer with 5 of 30 seconds left has scored the floor of 50
C17_Witness ==
    /\ last.op = "score"
    /\ last.data.correct /\ last.data.time_limit = 30 /\ last.data.time_remaining = 5
    /\ last.data.after[last.player] = last.data.before[last.player] + 50

\* C18: a question timer that runs out publishes time_up with the question's correct
\* answer and changes no score; the timer's step after the delay changes no score and
\* presents the question that follows the timed-out one, or finishes the game when the
\* timed-out question was the last.
C18_TimeoutAdvancesOne ==
    [][ LET s == last'.sid IN
        /\ (last'.op = "timer" /\ last'.events = <<"time_up">>)
           => /\ last'.data = <<CorrectAnswers[games[s].current_question + 1]>>
              /\ games'[s].scores = games[s].scores
        /\ (last'.op = "timer" /\ Published(last'.events, "new_question"))
           => /\ games'[s].scores = games[s].scores
              /\ games'[s].current_question = games[s].timed_out + 1
        /\ (last'.op = "timer" /\ Published(last'.events, "game_finished"))
           => games[s].timed_out = NumQuestions - 1 ]_vars

\* C19: a trivia session publishes game_finished at most once, and a started session
\* that the host does not stop eventually publishes it, with the room's status set to
\* finished.
C19_TriviaFinishesOnce ==
    /\ [](\A s \in Sessions : games[s].n_finished <= 1)
    /\ \A s \in 1..MaxSessions :
         (s \in TriviaSessions /\ games[s].is_active)
         ~> /\ s \in Sessions
            /\ \/ games[s].n_finished > 0 /\ status = "finished"
               \/ games[s].n_stopped > 0

\* C21: the gate of a buzzer session changes only disabled -> countdown (buzzer_live),
\* countdown -> live (a countdown task after its third tick) and back to disabled
\* (a round reset); buzzer_live with a gate that is not disabled changes nothing; and
\* buzzers_live is published only by a countdown task that was started in the current
\* round, has published its three ticks, and finds the session active.
C21_GateOrder ==
    [][ /\ (last'.op = "buzzer_live" /\ buzzer.buzzer_status # "disabled")
           => (buzzer' = buzzer /\ last'.events = <<>>)
        /\ buzzer'.buzzer_status # buzzer.buzzer_status
           => \/ /\ buzzer.buzzer_status = "disabled" /\ buzzer'.buzzer_status = "countdown"
                 /\ last'.op = "buzzer_live"
              \/ /\ buzzer.buzzer_status = "countdown" /\ buzzer'.buzzer_status = "live"
                 /\ last'.op = "countdown"
              \/ /\ buzzer'.buzzer_status = "disabled"
                 /\ last'.op \in {"new_round", "start_game"}
        /\ Published(last'.events, "buzzers_live")
           => /\ buzzer.is_active
              /\ \E t \in buzzer.tasks \ buzzer'.tasks :
                     t.ticks = Countdown /\ t.round = buzzer.round_number ]_vars

\* C22: in an active buzzer session a buzz with the gate disabled or in countdown returns
\* false, publishes buzz_blocked with the player and the reason early_buzz and changes
\* nothing of the session; a buzz with the gate live and no buzz recorded yet in the round
\* returns true and is recorded with position 1.
C22_EarlyBuzzBlocked ==
    [][ (last'.op = "buzz" /\ buzzer.is_active)
        => /\ buzzer.buzzer_status # "live"
              => /\ last'.ret = "false"
                 /\ last'.events = <<"buzz_blocked">>
                 /\ last'.data = [player_id |-> last'.player, reason |-> "early_buzz"]
                 /\ buzzer' = buzzer
           /\ (buzzer.buzzer_status = "live" /\ buzzer.buzz_times = <<>>)
              => /\ last'.ret = "true"
                 /\ last'.events = <<"player_buzzed">>
                 /\ buzzer'.buzz_times = <<[player_id |-> last'.player, position |-> 1]>> ]_vars

\* a buzz was blocked while a countdown task of the round had already published ticks
C22_Witness ==
    /\ last.op = "buzz" /\ last.ret = "false" /\ last.events = <<"buzz_blocked">>
    /\ buzzer.is_active
    /\ buzzer.buzzer_status = "countdown"
    /\ \E t \in buzzer.tasks : t.round = buzzer.round_number /\ t.ticks > 1

\* the entries of score table before that are lower in the table after
Decreased(before, after) ==
    {p \in DOMAIN before \cap DOMAIN after : after[p] < before[p]}

\* C23: no step lowers a player's score in any session, and an entry that a step adds to
\* a score table is not below 0.
C23_ScoresNeverDecrease ==
    [][ /\ Decreased(buzzer.scores, buzzer'.scores) = {}
        /\ \A p \in DOMAIN buzzer'.scores \ DOMAIN buzzer.scores : buzzer'.scores[p] >= 0
        /\ \A s \in LiveSessions :
               games'[s].kind # "collected"
               => Decreased(games[s].scores, games'[s].scores) = {} ]_vars

\* the events of a session, published through storage.publish
SessionEvents ==
    {"game_started", "tick", "click_registered", "player_buzzed", "answer_result",
     "game_finished", "game_stopped"}

\* the events the websocket routes send through broadcast_to_room
ViaBroadcast == {"player_connected", "player_disconnected", "lobby_updated", "error"}

\* the sockets an event is sent to: broadcast_to_room sends to ws_routes.connections,
\* storage.publish to storage.connections
Recipients(e) == IF e \in ViaBroadcast THEN connections ELSE storage_connections.conns

\* the clients connected through the websocket endpoint that have not disconnected
OpenSockets == {p \in Players : sockets[p].state = "open"}

\* C24: a call of publish / broadcast_to_room that ends has returned (it has not raised),
\* has reached every connection of the room (a failed send has not stopped the loop),
\* and ends with exactly the connections whose send failed removed from the room's set.
C24_SendFailureIsolated ==
    [][ (last'.op \in {"publish", "broadcast_to_room"} /\ last'.ret # "suspended")
        => /\ last'.ret = "returned"
           /\ last'.data.todo = {}
           /\ IF last'.data.via = "storage"
              THEN storage_connections'.conns = storage_connections.conns \ last'.data.failed
              ELSE connections' = connections \ last'.data.failed ]_vars

\* C25: every session event published in a step is sent to every client that is
\* connected to the room at that moment.
C25_ConnectedClientsReceive ==
    [][ \A i \in 1..Len(last'.events) :
            last'.events[i] \in SessionEvents => OpenSockets \subseteq Recipients(last'.events[i])
      ]_vars

\* the player_ids of a roster
RosterOf(seq) == {seq[i] : i \in 1..Len(seq)}

\* C26: the roster never holds a player twice; a player enters it only by that player's
\* join and leaves it only by that player's leave (or with the room); the ready flag of a
\* player in the roster changes only in a ready / unready step, which changes no other
\* flag; the status changes only in a step that starts, ends or finishes a session.
C26_NoLostUpdate ==
    [][ /\ NoDuplicates(players')
        /\ \A p \in RosterOf(players') \ RosterOf(players) :
               last'.op = "join" /\ last'.player = p
        /\ \A p \in RosterOf(players) \ RosterOf(players') :
               \/ last'.op = "leave" /\ last'.player = p
               \/ last'.op = "cleanup"
        /\ \A p \in RosterOf(players) \cap RosterOf(players') :
               is_ready'[p] # is_ready[p]
               => /\ last'.op = "ready"
                  /\ \A q \in RosterOf(players) \ {p} : is_ready'[q] = is_ready[q]
        /\ status' # status
           => \/ last'.op \in {"start_game", "end_game"}
              \/ Published(last'.events, "game_finished") ]_vars

\* the entries of the roster that have is_host
Hosts == {i \in 1..Len(players) : players[i] = Host}

\* C27: the roster of an existing room that has players has exactly one entry with
\* is_host.
C27_OneHost == (lobbies /\ players # <<>>) => Cardinality(Hosts) = 1

\* C28: a start_game step creates and registers a session and sets the status active
\* only if every player of the roster is ready before it; otherwise it publishes only
\* error and changes neither sessions, registry nor status; no other step creates a session.
C28_StartNeedsAllReady ==
    [][ /\ last'.op = "start_game"
           => IF \A i \in 1..Len(players) : is_ready[players[i]]
              THEN /\ Len(games') = Len(games) + 1
                   /\ registry' = Len(games')
                   /\ status' = "active"
              ELSE /\ last'.events = <<"error">>
                   /\ UNCHANGED <<status, games, registry>>
        /\ Len(games') > Len(games) => last'.op = "start_game" ]_vars

\* start_game was refused while a joined player was not ready
C28_Witness ==
    /\ last.op = "start_game" /\ last.events = <<"error">>
    /\ Len(players) = 2
    /\ \E i \in 1..Len(players) : ~is_ready[players[i]]
    /\ games = <<>> /\ status = "waiting"

\* C29: a game action handled for a player other than the host changes neither the
\* lobby nor the registry nor any session and publishes nothing.
C29_HostOnlyControl ==
    [][ \A p \in Players \ {Host}, a \in GameActions :
            GameAction(p, a)
            => /\ UNCHANGED <<status, is_ready, players, registry, games, buzzer, storevars>>
               /\ last'.events = <<>> ]_vars

\* a player who is not the host sent a game action while a session was running
C29_Witness ==
    /\ last.op = "game_action" /\ last.player # Host /\ last.ret = "ignored"
    /\ status = "active"
    /\ registry # 0 /\ games[registry].is_active

\* C30: at most one cleanup task is pending; the lobby, the room's storage connections
\* and its lock disappear only in the step of a pending cleanup task; a leave that
\* empties the roster and a session that saves the status finished leave the room in
\* place with exactly one cleanup task pending.
C30_DeferredTeardown ==
    /\ [](cleanup_tasks <= 1)
    /\ [][ /\ ( \/ lobbies /\ ~lobbies'
                \/ locks /\ ~locks'
                \/ storage_connections.has_room /\ ~storage_connections'.has_room )
              => (last'.op = "cleanup" /\ cleanup_tasks = 1)
           /\ (last'.op = "leave" /\ players' = <<>>)
              => (lobbies' /\ locks' /\ cleanup_tasks' = 1)
           /\ (status' = "finished" /\ Published(last'.events, "game_finished"))
              => (lobbies' /\ locks' /\ cleanup_tasks' = 1) ]_vars

\* the room was torn down after its session had finished and its last player had left
C30_Witness ==
    /\ last.op = "cleanup"
    /\ ~lobbies /\ ~locks /\ cleanup_tasks = 0
    /\ status = "finished"
    /\ games # <<>> /\ games[1].n_finished = 1

\* the session in the room's registry is running
CurrentActive == registry # 0 /\ games[registry].is_active

\* C31: while the session registered for the room is active the room's status is active;
\* after a host end_game the status is waiting and no session is registered; a timer
\* step of a session other than the registered one leaves the status alone while the
\* registered session is active.
C31_StatusAgreesWithSession ==
    /\ [](CurrentActive => status = "active")
    /\ [][ /\ last'.op = "end_game" => (status' = "waiting" /\ registry' = 0)
           /\ (CurrentActive /\ last'.op = "timer" /\ last'.sid # registry)
              => status' = status ]_vars

\* C32: the time_remaining of every trivia session stays between 0 and the time limit
\* of its question.
C32_TimeRemainingInRange ==
    \A s \in TriviaSessions :
        games[s].time_remaining >= 0 /\ games[s].time_remaining <= TimeLimit

\* C33: the question index of a trivia session moves by one step at a time, and only
\* past the question that is presented and has just been resolved (its own time_up, or
\* an answer); a new_question event presents the question presented before or the one
\* after it; game_finished is published only when the last question has been presented.
C33_QuestionsInSequence ==
    [][ \A s \in TriviaSessions :
          (s \in Sessions' /\ games'[s].kind = "trivia")
          => LET g == games[s]
                 h == games'[s]
             IN  /\ h.question_number \in {g.question_number, g.question_number + 1}
                 /\ h.question_number = g.question_number + 1
                    => /\ last'.op \in {"timer", "answer"} /\ last'.sid = s
                       /\ last'.op = "timer" => g.timed_out = g.current_question
                 /\ (last'.sid = s /\ Published(last'.events, "new_question"))
                    => h.current_question \in {g.current_question, g.current_question + 1}
                 /\ (last'.sid = s /\ Published(last'.events, "game_finished"))
                    => g.current_question = NumQuestions - 1 ]_vars

\* C34: the position published with player_buzzed for an accepted trivia buzz is the
\* position stored in the record that the buzz appended to the buzz list.
C34_BuzzPositionsAgree ==
    [][ (last'.op = "buzz" /\ last'.sid # 0 /\ Published(last'.events, "player_buzzed"))
        => LET bt == games'[last'.sid].buzz_times
           IN  /\ Len(bt) = Len(games[last'.sid].buzz_times) + 1
               /\ bt[Len(bt)].player_id = last'.player
               /\ bt[Len(bt)].position = last'.data.position ]_vars

\* the second player's buzz on a question was accepted and published with position 2
C34_Witness ==
    /\ last.op = "buzz" /\ last.sid # 0 /\ last.ret = "true"
    /\ last.data.position = 2
    /\ Len(games[last.sid].buzz_times) = 2
    /\ games[last.sid].buzz_times[2].player_id = last.player

\* C35: a cleanup task that wakes while the room is in use again (its roster is not
\* empty and its status is waiting or active) leaves the lobby, its roster, its storage
\* connections and its lock in place.
C35_TeardownSparesRoomInUse ==
    [][ (last'.op = "cleanup" /\ lobbies /\ players # <<>> /\ status \in {"waiting", "active"})
        => /\ lobbies' /\ locks'
           /\ players' = players
           /\ storage_connections' = storage_connections ]_vars

\* C36: handling a connect or disconnect of player p changes nothing of the roster but
\* p's connected flag: the roster's list and every is_ready stay as they are, and only
\* p may enter or leave the set of connected players.
C36_ConnectTouchesOnlyFlag ==
    [][ last'.op \in {"connect", "disconnect"}
        => /\ players' = players
           /\ is_ready' = is_ready
           /\ \A q \in Players \ {last'.player} : (q \in connected') = (q \in connected)
           /\ status' = status ]_vars

====
